---- MODULE Spec2Model ----
(***************************************************************************)
(* Model of the buffering / worker-pool classes of qualysapi/api_objects.py *)
(* (BufferQueue, BufferConsumer, ImportBuffer) and of the report runner     *)
(* (MapReportRunner).                                                       *)
(*                                                                          *)
(* The specifications of the module:                                        *)
(*   Spec          one producer using ImportBuffer.add / finish on one      *)
(*                 instance                                                 *)
(*   SpecLive      Spec with the scheduling of the consumer processes fair  *)
(*   SpecShared    one producer using several ImportBuffer instances        *)
(*   SpecPool      BufferConsumer processes started directly on one queue   *)
(*   SpecQueue     BufferQueue.consume applied to bounded queue contents    *)
(*   SpecRunner    MapReportRunner.run fed by a queue of map references     *)
(*   SpecRunnerLive SpecRunner with the runner process scheduled fairly     *)
(*   SpecConstruct the constructors of BufferConsumer and MapReportRunner   *)
(*   SpecStats     BufferStats used by the manager and its consumers        *)
(***************************************************************************)
EXTENDS Integers, Sequences, FiniteSets, TLC

\* ------------------------------------------------------------------ bounds
\* number of items the producer submits in a run
MaxItems == 3
\* number of consumer processes that can be created in a run
MaxProcs == 3
\* number of consumer processes a caller starts directly on one queue
MaxPool == 2
\* trigger_limit is drawn from 1..MaxTriggerLimit
MaxTriggerLimit == 2
\* max_consumers is drawn from 1..MaxMaxConsumers
MaxMaxConsumers == 3
\* ImportBuffer instances that exist in the interpreter
NumBuffers == 2
\* BufferQueue.consume: the queue holds at most MaxLen items, lim is in 0..MaxLim
MaxLen == 3
MaxLim == 4
\* consume() is called at most MaxCalls times on one queue
MaxCalls == 2
\* map references: keys 1..MaxMaps, at most MaxJobs references are queued in a run
MaxMaps == 2
MaxJobs == 3
\* constructor calls made in a run
MaxConstructs == 3
\* BufferStats: processed is in 0..MaxProcessed, the times in 1..MaxTime (or None),
\* and the consumers make at most MaxIncs increment calls
MaxProcessed == 2
MaxTime == 2
MaxIncs == 2

\* class-level defaults of ImportBuffer
DefaultTriggerLimit == 5000
DefaultMaxConsumers == 5

\* Python's None, for a slot that holds an item, a process or an instance number (all >= 1)
None == 0

Buffers == 1..NumBuffers
Procs == 1..MaxProcs
Items == 1..MaxItems

VARIABLES
    queue,          \* ImportBuffer.queue: class attribute, one queue for all instances
    running,        \* ImportBuffer.running: class attribute, list of consumer handles
    results_list,   \* self.results_list: one Manager().list() per instance
    trigger_limit,  \* self.trigger_limit per instance
    max_consumers,  \* self.max_consumers per instance
    wpc,            \* position of each consumer process in BufferConsumer.run
    witem,          \* the local variable `item` of each consumer
    wlist,          \* the results_list a consumer was constructed with (instance id or None)
    ppc,            \* position of the producer: "ready" or "join" (inside finish)
    jbuf,           \* the instance finish() was called on
    jidx,           \* index of finish()'s for loop over self.running
    ret,            \* value returned by the last finish(), <<>> before the first
    drained,        \* TRUE from the return of a finish() to the next add()
    submitted,      \* number of items put so far; the n-th item is the integer n
    started,        \* number of consumer processes created so far
    submitted_to,   \* the instance each item was added through, in submission order
    completion_calls, \* the arguments completion_callback was invoked with, in order
    consumer_calls, \* number of invocations of consumer_callback
    \* --- BufferQueue.consume
    dq,             \* the items held by a BufferQueue, oldest first
    lim,            \* the argument of the last consume(lim) call
    consumed,       \* the list the last consume() returned (<<>> if it raised)
    raised,         \* the exception the last consume() raised, "" if none
    before,         \* the items the queue held when the last consume() was called
    calls,          \* number of consume() calls made
    \* --- MapReportRunner.run
    jobq,           \* self.queue of the runner: map references, oldest first
    cache,          \* report id the redis cache holds for each map key (None: none)
    rpc,            \* position of the runner in run()
    map_instance,   \* the local variable map_instance
    generate_log,   \* the map references with which control reached the
                    \* "attempt to generate a report" branch (line 566)
    create_requests,\* the map references for which a remote create-report request was issued
    jobs_put,       \* number of map references queued so far
    dequeues,       \* how many times a reference to each map key was dequeued
    status_requests,\* the map references for which a remote status request was issued
    \* --- constructors of BufferConsumer and MapReportRunner
    ccls,           \* the class of the last constructor call, "" before the first
    ckw,            \* the keyword arguments of that call
    cresult,        \* its outcome: "ok" or the name of the exception raised
    constructs,     \* number of constructor calls made
    \* --- BufferStats
    stats,          \* ImportBuffer.stats as the manager process sees it
    wstats,         \* the copy of the counters each consumer process works on
    inc_calls,      \* number of calls of each increment method completed by consumers
    avg             \* outcome of the last calculate_processing_average() call

bufvars == <<queue, running, results_list, trigger_limit, max_consumers,
             wpc, witem, wlist, ppc, jbuf, jidx, ret, drained, submitted, started,
             submitted_to, completion_calls, consumer_calls>>

\* the callbacks of ImportBuffer.__init__'s docstring
hooks == <<completion_calls, consumer_calls>>

qvars == <<dq, lim, consumed, raised, before, calls>>

rvars == <<jobq, cache, rpc, map_instance, generate_log, create_requests, jobs_put,
           dequeues, status_requests>>

cvars == <<ccls, ckw, cresult, constructs>>

svars == <<stats, wstats, inc_calls, avg>>

vars == <<bufvars, qvars, rvars, cvars, svars>>

\* ------------------------------------------------------------- helpers
\* Process.is_alive(): started and not yet exited
is_alive(w) == wpc[w] \in {"get", "append", "done"}

\* list.remove(x): drop the first element equal to x
RECURSIVE remove(_, _)
remove(l, x) ==
    IF l = <<>> THEN <<>>
    ELSE IF Head(l) = x THEN Tail(l)
    ELSE <<Head(l)>> \o remove(Tail(l), x)

\* a clean-up loop that removes nothing
reap_none(l, i, alive) == l

\* the clean-up loop of add(): `for csmr in self.running: if not csmr.is_alive():
\* self.running.remove(csmr)`. The list iterator is an index into the list that
\* is being shortened, so the element following a removed one is skipped.
RECURSIVE reap(_, _, _)
reap(l, i, alive) ==
    IF i > Len(l) THEN l
    ELSE IF l[i] \notin alive THEN reap(remove(l, l[i]), i + 1, alive)
    ELSE reap(l, i + 1, alive)

Live == {w \in Procs : is_alive(w)}

\* ---------------------------------------------------------------- Init
BufInit ==
    /\ queue = <<>>
    /\ running = <<>>
    /\ results_list = [b \in Buffers |-> <<>>]
    /\ \E t \in 1..MaxTriggerLimit :
         trigger_limit = [b \in Buffers |-> IF b = 1 THEN t ELSE DefaultTriggerLimit]
    /\ \E c \in 1..MaxMaxConsumers :
         max_consumers = [b \in Buffers |-> IF b = 1 THEN c ELSE DefaultMaxConsumers]
    /\ wpc = [w \in Procs |-> "new"]
    /\ witem = [w \in Procs |-> None]
    /\ wlist = [w \in Procs |-> None]
    /\ ppc = "ready"
    /\ jbuf = None
    /\ jidx = 0
    /\ ret = <<>>
    /\ drained = FALSE
    /\ submitted = 0
    /\ started = 0
    /\ submitted_to = <<>>
    /\ completion_calls = <<>>
    /\ consumer_calls = 0

\* the parts of the state a specification does not use stay as constructed
QIdle ==
    /\ dq = <<>>
    /\ lim = 0
    /\ consumed = <<>>
    /\ raised = ""
    /\ before = <<>>
    /\ calls = 0

NoMap == [key |-> None, report_id |-> None]

RIdle ==
    /\ jobq = <<>>
    /\ cache = [k \in 1..MaxMaps |-> None]
    /\ rpc = "get"
    /\ map_instance = NoMap
    /\ generate_log = {}
    /\ create_requests = {}
    /\ jobs_put = 0
    /\ dequeues = [k \in 1..MaxMaps |-> 0]
    /\ status_requests = {}

NoKw == [queue |-> FALSE, redis_cache |-> FALSE, results_list |-> FALSE, bite_size |-> None]

CIdle ==
    /\ ccls = ""
    /\ ckw = NoKw
    /\ cresult = ""
    /\ constructs = 0

\* class BufferStats: the class attributes
NewStats ==
    [processed |-> 0, updates |-> 0, adds |-> 0, deletes |-> 0,
     start_time |-> None, end_time |-> None]

Counters == {"updates", "adds", "deletes"}

NoAvg == [called |-> FALSE, kind |-> "", value |-> 0]

SIdle ==
    /\ stats = NewStats
    /\ wstats = [w \in Procs |-> NewStats]
    /\ inc_calls = [c \in Counters |-> 0]
    /\ avg = NoAvg

\* an ImportBuffer that is constructed with the smallest limits and not used
BufIdle == BufInit /\ trigger_limit[1] = 1 /\ max_consumers[1] = 1

Init == BufInit /\ QIdle /\ RIdle /\ CIdle /\ SIdle

\* ------------------------------------------------------ BufferConsumer.run
\* a get that takes the newest item instead of the oldest
ConsumerGet_newest(w) ==
    /\ wpc[w] = "get"
    /\ queue # <<>>
    /\ witem' = [witem EXCEPT ![w] = queue[Len(queue)]]
    /\ queue' = SubSeq(queue, 1, Len(queue) - 1)
    /\ wpc' = [wpc EXCEPT ![w] = "append"]
    /\ UNCHANGED <<qvars, rvars, cvars, svars, hooks, submitted_to,
                   running, results_list, trigger_limit, max_consumers, wlist,
                   ppc, jbuf, jidx, ret, drained, submitted, started>>

\* a get that reads the oldest item and leaves it in the queue
ConsumerGet_peek(w) ==
    /\ wpc[w] = "get"
    /\ queue # <<>>
    /\ witem' = [witem EXCEPT ![w] = Head(queue)]
    /\ wpc' = [wpc EXCEPT ![w] = "append"]
    /\ UNCHANGED <<qvars, rvars, cvars, svars, hooks, submitted_to,
                   queue, running, results_list, trigger_limit, max_consumers,
                   wlist, ppc, jbuf, jidx, ret, drained, submitted, started>>

\* queue.get(timeout=0.5) returns the oldest item
ConsumerGet(w) ==
    /\ wpc[w] = "get"
    /\ queue # <<>>
    /\ witem' = [witem EXCEPT ![w] = Head(queue)]
    /\ queue' = Tail(queue)
    /\ wpc' = [wpc EXCEPT ![w] = "append"]
    /\ UNCHANGED <<qvars, rvars, cvars, svars, hooks, submitted_to,
                   running, results_list, trigger_limit, max_consumers, wlist,
                   ppc, jbuf, jidx, ret, drained, submitted, started>>

\* if self.results_list is not None: self.results_list.append(item)
ConsumerAppend(w) ==
    /\ wpc[w] = "append"
    /\ results_list' = IF wlist[w] # None
                       THEN [results_list EXCEPT ![wlist[w]] = Append(@, witem[w])]
                       ELSE results_list
    /\ wpc' = [wpc EXCEPT ![w] = "get"]
    /\ UNCHANGED <<qvars, rvars, cvars, svars, hooks, submitted_to,
                   queue, running, trigger_limit, max_consumers, witem, wlist,
                   ppc, jbuf, jidx, ret, drained, submitted, started>>

\* a timeout handler that does not set done: the loop tries the queue again
ConsumerEmpty_retry(w) ==
    /\ wpc[w] = "get"
    /\ queue = <<>>
    /\ UNCHANGED vars

\* queue.get(timeout=0.5) raises queue.Empty: done = True
ConsumerEmpty(w) ==
    /\ wpc[w] = "get"
    /\ queue = <<>>
    /\ wpc' = [wpc EXCEPT ![w] = "done"]
    /\ UNCHANGED <<qvars, rvars, cvars, svars, hooks, submitted_to,
                   queue, running, results_list, trigger_limit, max_consumers,
                   witem, wlist, ppc, jbuf, jidx, ret, drained, submitted, started>>

\* the while loop ends, run() returns and the process exits
ConsumerExit(w) ==
    /\ wpc[w] = "done"
    /\ wpc' = [wpc EXCEPT ![w] = "dead"]
    /\ UNCHANGED <<qvars, rvars, cvars, svars, hooks, submitted_to,
                   queue, running, results_list, trigger_limit, max_consumers,
                   witem, wlist, ppc, jbuf, jidx, ret, drained, submitted, started>>

\* ------------------------------------------------------- ImportBuffer.add
\* a start test that tolerates one handle in the list
should_start_one_more(l) == Len(l) <= 1

\* `if not len(self.running)`: the test that decides whether add() starts a consumer
should_start(l) == Len(l) = 0

\* add(item): put, start a consumer if the running list is empty, then the
\* clean-up loop. The running list is touched by the producer alone; the
\* consumers' steps interleave between calls.
add(b) ==
    /\ ppc = "ready"
    /\ submitted < MaxItems
    /\ LET item == submitted + 1
           new == started + 1
           start == should_start(running)
           wpc1 == IF start THEN [wpc EXCEPT ![new] = "get"] ELSE wpc
           run1 == IF start THEN Append(running, new) ELSE running
           alive1 == {w \in Procs : wpc1[w] \in {"get", "append", "done"}}
       IN  /\ start => new \in Procs
           /\ queue' = Append(queue, item)
           /\ submitted' = item
           /\ wpc' = wpc1
           /\ wlist' = IF start THEN [wlist EXCEPT ![new] = b] ELSE wlist
           /\ started' = IF start THEN new ELSE started
           /\ running' = reap(run1, 1, alive1)
    /\ drained' = FALSE
    /\ submitted_to' = Append(submitted_to, b)
    /\ UNCHANGED <<qvars, rvars, cvars, svars, hooks,
                   results_list, trigger_limit, max_consumers, witem,
                   ppc, jbuf, jidx, ret>>

\* ---------------------------------------------------- ImportBuffer.finish
\* finish() is entered: the for loop over self.running begins
FinishCall(b) ==
    /\ ppc = "ready"
    /\ ppc' = "join"
    /\ jbuf' = b
    /\ jidx' = 1
    /\ UNCHANGED <<qvars, rvars, cvars, svars, hooks, submitted_to,
                   queue, running, results_list, trigger_limit, max_consumers,
                   wpc, witem, wlist, ret, drained, submitted, started>>

\* a join that returns without waiting
joined_nowait(w) == TRUE

\* csmr.join() returns once the consumer has exited
joined(w) == ~is_alive(w)

FinishJoin ==
    /\ ppc = "join"
    /\ jidx <= Len(running)
    /\ joined(running[jidx])
    /\ jidx' = jidx + 1
    /\ UNCHANGED <<qvars, rvars, cvars, svars, hooks, submitted_to,
                   queue, running, results_list, trigger_limit, max_consumers,
                   wpc, witem, wlist, ppc, jbuf, ret, drained, submitted, started>>

\* a finish that hands the results over and empties the collector
FinishReturn_clear ==
    /\ ppc = "join"
    /\ jidx > Len(running)
    /\ ret' = results_list[jbuf]
    /\ results_list' = [results_list EXCEPT ![jbuf] = <<>>]
    /\ drained' = TRUE
    /\ ppc' = "ready"
    /\ UNCHANGED <<qvars, rvars, cvars, svars, hooks, submitted_to,
                   queue, running, trigger_limit, max_consumers,
                   wpc, witem, wlist, jbuf, jidx, submitted, started>>

\* return list(self.results_list)
FinishReturn ==
    /\ ppc = "join"
    /\ jidx > Len(running)
    /\ ret' = results_list[jbuf]
    /\ drained' = TRUE
    /\ ppc' = "ready"
    /\ UNCHANGED <<qvars, rvars, cvars, svars, hooks, submitted_to,
                   queue, running, results_list, trigger_limit, max_consumers,
                   wpc, witem, wlist, jbuf, jidx, submitted, started>>

\* ------------------------------------------------------------------ Spec
Next ==
    \/ add(1)
    \/ FinishCall(1)
    \/ FinishJoin
    \/ FinishReturn
    \/ \E w \in Procs : ConsumerGet(w)
    \/ \E w \in Procs : ConsumerAppend(w)
    \/ \E w \in Procs : ConsumerEmpty(w)
    \/ \E w \in Procs : ConsumerExit(w)

Spec == Init /\ [][Next]_vars

\* a step of consumer process w
ConsumerStep(w) ==
    ConsumerGet(w) \/ ConsumerAppend(w) \/ ConsumerEmpty(w) \/ ConsumerExit(w)

\* every started consumer process keeps being scheduled, and its
\* queue.get(timeout=0.5) returns or times out
SpecLive == Init /\ [][Next]_vars /\ \A w \in Procs : WF_vars(ConsumerStep(w))

\* ------------------------------------------------------------ SpecShared
\* one producer that uses every ImportBuffer instance: queue and running are
\* class attributes, so all instances work on the same two objects
NextShared ==
    \/ \E b \in Buffers : add(b)
    \/ \E b \in Buffers : FinishCall(b)
    \/ FinishJoin
    \/ FinishReturn
    \/ \E w \in Procs : ConsumerGet(w)
    \/ \E w \in Procs : ConsumerAppend(w)
    \/ \E w \in Procs : ConsumerEmpty(w)
    \/ \E w \in Procs : ConsumerExit(w)

SpecShared == Init /\ [][NextShared]_vars

\* -------------------------------------------------------------- SpecPool
\* BufferConsumer(queue=..., results_list=...) is constructed and start()ed by
\* a caller; the consumers share the queue and the managed list of instance 1
PoolStart ==
    /\ started < MaxPool
    /\ started + 1 \in Procs
    /\ started' = started + 1
    /\ wpc' = [wpc EXCEPT ![started + 1] = "get"]
    /\ wlist' = [wlist EXCEPT ![started + 1] = 1]
    /\ UNCHANGED <<qvars, rvars, cvars, svars, hooks, submitted_to,
                   queue, running, results_list, trigger_limit, max_consumers,
                   witem, ppc, jbuf, jidx, ret, drained, submitted>>

\* the producer puts the next item: queue.put(item)
PoolPut ==
    /\ submitted < MaxItems
    /\ submitted' = submitted + 1
    /\ queue' = Append(queue, submitted + 1)
    /\ submitted_to' = Append(submitted_to, 1)
    /\ UNCHANGED <<qvars, rvars, cvars, svars, hooks,
                   running, results_list, trigger_limit, max_consumers,
                   wpc, witem, wlist, ppc, jbuf, jidx, ret, drained, started>>

NextPool ==
    \/ PoolStart
    \/ PoolPut
    \/ \E w \in Procs : ConsumerGet(w)
    \/ \E w \in Procs : ConsumerAppend(w)
    \/ \E w \in Procs : ConsumerEmpty(w)
    \/ \E w \in Procs : ConsumerExit(w)

SpecPool == Init /\ [][NextPool]_vars

\* ------------------------------------------------------------- SpecQueue
\* class BufferQueue(Queue): the base class multiprocessing.queues.Queue defines
\* no __len__ (and no popleft), so len(self) raises TypeError
Queue_has_len == FALSE

\* BufferQueue.consume(lim) on a queue holding q: the exception raised ("" if
\* none), the list returned and the items left in the queue
consume(q, l) ==
    IF ~Queue_has_len
    THEN [raised |-> "TypeError", ret |-> <<>>, queue |-> q]
    ELSE LET n == IF Len(q) < l THEN Len(q) ELSE l
         IN  [raised |-> "", ret |-> SubSeq(q, 1, n), queue |-> SubSeq(q, n + 1, Len(q))]

\* the bounded sequences of items a queue can hold
RECURSIVE SeqsUpTo(_)
SeqsUpTo(n) ==
    IF n = 0 THEN {<<>>}
    ELSE LET shorter == SeqsUpTo(n - 1)
         IN  shorter \cup {Append(t, i) : t \in {u \in shorter : Len(u) = n - 1}, i \in Items}

QInit ==
    /\ dq \in SeqsUpTo(MaxLen)
    /\ lim = 0
    /\ consumed = <<>>
    /\ raised = ""
    /\ before = dq
    /\ calls = 0

\* a caller invokes consume(l)
Consume ==
    \E l \in 0..MaxLim :
        LET r == consume(dq, l)
        IN  /\ calls < MaxCalls
            /\ calls' = calls + 1
            /\ lim' = l
            /\ before' = dq
            /\ consumed' = r.ret
            /\ raised' = r.raised
            /\ dq' = r.queue
            /\ UNCHANGED <<bufvars, rvars, cvars, svars>>

NextQueue == Consume

InitQueue == BufIdle /\ QInit /\ RIdle /\ CIdle /\ SIdle

SpecQueue == InitQueue /\ [][NextQueue]_vars

\* ------------------------------------------------------------ SpecRunner
\* the upstream process queues a reference to map k, with the report id it
\* knows (the report of map k is identified by k; None: no report yet)
JobPut ==
    \E k \in 1..MaxMaps : \E r \in {None, k} :
        /\ jobs_put < MaxJobs
        /\ jobs_put' = jobs_put + 1
        /\ jobq' = Append(jobq, [key |-> k, report_id |-> r])
        /\ UNCHANGED <<bufvars, qvars, cvars, svars, status_requests,
                   cache, rpc, map_instance, generate_log,
                       create_requests, dequeues>>

\* another process creates the report of map k and stores it in the cache
CacheStore ==
    \E k \in 1..MaxMaps :
        /\ cache[k] = None
        /\ cache' = [cache EXCEPT ![k] = k]
        /\ UNCHANGED <<bufvars, qvars, cvars, svars, status_requests,
                   jobq, rpc, map_instance, generate_log,
                       create_requests, jobs_put, dequeues>>

\* rconn.load_api_object(obj=map_instance): the reference takes the report id
\* the cache holds for its map, if any
load_api_object(m) ==
    IF cache[m.key] # None THEN [m EXCEPT !.report_id = cache[m.key]] ELSE m

\* map_instance = self.queue.get(timeout=1)
RunnerGet ==
    /\ rpc = "get"
    /\ jobq # <<>>
    /\ map_instance' = Head(jobq)
    /\ jobq' = Tail(jobq)
    /\ dequeues' = [dequeues EXCEPT ![Head(jobq).key] = @ + 1]
    /\ rpc' = "while"
    /\ UNCHANGED <<bufvars, qvars, cvars, svars, status_requests,
                   cache, generate_log, create_requests, jobs_put>>

\* self.queue.get(timeout=1) raises queue.Empty: done = True, run() returns
RunnerEmpty ==
    /\ rpc = "get"
    /\ jobq = <<>>
    /\ rpc' = "done"
    /\ UNCHANGED <<bufvars, qvars, cvars, svars, status_requests,
                   jobq, cache, map_instance, generate_log,
                   create_requests, jobs_put, dequeues>>

\* while map_instance.report_id is None:
RunnerWhile ==
    /\ rpc = "while"
    /\ rpc' = IF map_instance.report_id = None THEN "load" ELSE "get"
    /\ UNCHANGED <<bufvars, qvars, cvars, svars, status_requests,
                   jobq, cache, map_instance, generate_log,
                   create_requests, jobs_put, dequeues>>

\* rconn = self.redis_cache.getConnection(); rconn.load_api_object(obj=map_instance)
RunnerLoad ==
    /\ rpc = "load"
    /\ map_instance' = load_api_object(map_instance)
    /\ rpc' = "recheck"
    /\ UNCHANGED <<bufvars, qvars, cvars, svars, status_requests,
                   jobq, cache, generate_log, create_requests,
                   jobs_put, dequeues>>

\* a recheck that does not look at the refreshed reference
still_none_unchecked(m) == TRUE

\* the recheck after the refresh: `if map_instance.report_id is None:`
still_none(m) == m.report_id = None

\* the recheck and its branch, whose body is `pass`: no request is issued and
\* the reference is left as it is
RunnerRecheck ==
    /\ rpc = "recheck"
    /\ generate_log' = IF still_none(map_instance)
                       THEN generate_log \cup {map_instance}
                       ELSE generate_log
    /\ rpc' = "while"
    /\ UNCHANGED <<bufvars, qvars, cvars, svars, status_requests,
                   jobq, cache, map_instance, create_requests,
                   jobs_put, dequeues>>

NextRunner ==
    \/ JobPut
    \/ CacheStore
    \/ RunnerGet
    \/ RunnerEmpty
    \/ RunnerWhile
    \/ RunnerLoad
    \/ RunnerRecheck

\* run() is modelled from its entry, on a runner whose queue and redis_cache are set
InitRunner == BufIdle /\ QIdle /\ RIdle /\ CIdle /\ SIdle

SpecRunner == InitRunner /\ [][NextRunner]_vars

\* a step of the runner process
RunnerStep == RunnerGet \/ RunnerEmpty \/ RunnerWhile \/ RunnerLoad \/ RunnerRecheck

\* the runner process keeps being scheduled and its queue.get(timeout=1)
\* returns or times out; nothing obliges the upstream process or the process
\* that fills the cache to act
SpecRunnerLive == InitRunner /\ [][NextRunner]_vars /\ WF_vars(RunnerStep)

\* --------------------------------------------------------- SpecConstruct
\* the classes of the module that derive from multiprocessing.Process
Classes == {"BufferConsumer", "MapReportRunner"}

\* issubclass(cls, base) for these classes: each derives from Process only
subclass_of(cls, base) == cls = base \/ base = "Process"

\* the names bound at module level that a `raise` can refer to: the module
\* imports `exceptions` and defines no ReportRunnerException
bound_names == {"exceptions.ParsingBufferException"}

\* `raise name(...)`: the exception raised, NameError if the name is unbound
raise_named(name) ==
    IF name \in bound_names
    THEN IF name = "exceptions.ParsingBufferException" THEN "ParsingBufferException" ELSE name
    ELSE "NameError"

\* super(base, self).__init__() in a method of cls: super() raises TypeError
\* unless self is an instance of base
super_init(base, cls) == IF subclass_of(cls, base) THEN "ok" ELSE "TypeError"

\* BufferConsumer.__init__(**kwargs)
BufferConsumer_init(kw) ==
    IF super_init("BufferConsumer", "BufferConsumer") # "ok"
    THEN super_init("BufferConsumer", "BufferConsumer")
    ELSE IF ~kw.queue THEN raise_named("exceptions.ParsingBufferException")
    ELSE "ok"

\* MapReportRunner.__init__(**kwargs)
MapReportRunner_init(kw) ==
    IF super_init("BufferConsumer", "MapReportRunner") # "ok"
    THEN super_init("BufferConsumer", "MapReportRunner")
    ELSE IF ~kw.queue THEN raise_named("ReportRunnerException")
    ELSE IF ~kw.redis_cache THEN raise_named("ReportRunnerException")
    ELSE "ok"

\* the keyword arguments a caller can pass (TRUE: an object is passed)
Kwargs ==
    [queue : BOOLEAN, redis_cache : BOOLEAN, results_list : BOOLEAN,
     bite_size : {None, 1, 1000}]

\* a caller constructs an object of one of the classes
Construct ==
    \E cls \in Classes : \E kw \in Kwargs :
        /\ constructs < MaxConstructs
        /\ constructs' = constructs + 1
        /\ ccls' = cls
        /\ ckw' = kw
        /\ cresult' = IF cls = "BufferConsumer" THEN BufferConsumer_init(kw)
                      ELSE MapReportRunner_init(kw)
        /\ UNCHANGED <<bufvars, qvars, rvars, svars>>

NextConstruct == Construct

InitConstruct == BufIdle /\ QIdle /\ RIdle /\ CIdle /\ SIdle

SpecConstruct == InitConstruct /\ [][NextConstruct]_vars

\* ------------------------------------------------------------- SpecStats
\* calculate_processing_average(): the body is `pass`, the call returns None
calculate_processing_average(st) == [called |-> TRUE, kind |-> "None", value |-> 0]

\* increment_updates(): self.updates += 1
increment_updates(st) == [st EXCEPT !.updates = @ + 1]

\* increment_insertions(): self.adds += 1
increment_insertions(st) == [st EXCEPT !.adds = @ + 1]

\* decrement(): self.deletes += 1
decrement(st) == [st EXCEPT !.deletes = @ + 1]

\* the method that counts on counter c
increment(c, st) ==
    IF c = "updates" THEN increment_updates(st)
    ELSE IF c = "adds" THEN increment_insertions(st)
    ELSE decrement(st)

\* the manager's BufferStats when the consumers are started: processed and the
\* times as the run has set them, the counters as the class defines them. A
\* consumer is a multiprocessing.Process: it works on the copy of the object
\* its process got when it was started.
StatsInit ==
    /\ \E p \in 0..MaxProcessed : \E t0 \in 0..MaxTime : \E t1 \in 0..MaxTime :
         stats = [NewStats EXCEPT !.processed = p, !.start_time = t0, !.end_time = t1]
    /\ wstats = [w \in Procs |-> stats]
    /\ inc_calls = [c \in Counters |-> 0]
    /\ avg = NoAvg

\* consumer process w calls one of the increment methods
StatsIncrement ==
    \E w \in Procs : \E c \in Counters :
        /\ inc_calls["updates"] + inc_calls["adds"] + inc_calls["deletes"] < MaxIncs
        /\ wstats' = [wstats EXCEPT ![w] = increment(c, @)]
        /\ inc_calls' = [inc_calls EXCEPT ![c] = @ + 1]
        /\ UNCHANGED <<bufvars, qvars, rvars, cvars, stats, avg>>

\* the manager calls stats.calculate_processing_average()
StatsAverage ==
    /\ avg' = calculate_processing_average(stats)
    /\ UNCHANGED <<bufvars, qvars, rvars, cvars, stats, wstats, inc_calls>>

NextStats == StatsIncrement \/ StatsAverage

InitStats == BufIdle /\ QIdle /\ RIdle /\ CIdle /\ StatsInit

SpecStats == InitStats /\ [][NextStats]_vars

\* ================================================================ claims
\* a step of add(): one more item has been put
AddStep == submitted' = submitted + 1
\* the step on which finish() returns
FinishReturns == ppc = "join" /\ ppc' = "ready"

\* C1: when finish() returns after N items were submitted, the returned
\* sequence has exactly N entries.
C1_DrainReturnsAll == [][FinishReturns => Len(ret') = submitted']_vars

\* C2: the number of concurrently live consumers never exceeds max_consumers.
C2_LiveAtMostMax == Cardinality(Live) <= max_consumers[1]

\* C2 witness: a consumer is live at the cap while the backlog is above trigger_limit.
C2_Witness ==
    /\ Cardinality(Live) = max_consumers[1]
    /\ Len(queue) > trigger_limit[1]

\* C3: an add() that finds the backlog above trigger_limit and fewer than
\* max_consumers consumers running starts one more consumer.
C3_ScalesOnBacklog ==
    [][(AddStep /\ Len(queue') > trigger_limit[1] /\ Len(running) < max_consumers[1])
         => started' = started + 1]_vars

\* C5: an add() called while no consumer is alive enqueues the item and starts
\* exactly one consumer.
C5_StartsWhenNoneAlive ==
    [][(AddStep /\ Live = {})
         => /\ started' = started + 1
            /\ queue' = Append(queue, submitted')]_vars

\* C6: finish() returns only when no consumer is alive, and a consumer only
\* ever exits from its own queue timeout (it is never cancelled).
C6_DrainWaits ==
    [][/\ FinishReturns => \A w \in Procs : ~is_alive(w)
       /\ \A w \in Procs : (is_alive(w) /\ ~is_alive(w)') => wpc[w] = "done"]_vars

\* C6 witness: finish() has returned after joining a consumer of the running list.
C6_Witness ==
    /\ drained
    /\ ppc = "ready"
    /\ jidx = 2
    /\ Len(running) = 1
    /\ Len(ret) > 0

\* C7: an add() issued after finish() has completed accepts the item and
\* starts a new consumer for it (none is alive once finish() has returned).
C7_NewGenerationAfterDrain ==
    [][(AddStep /\ drained)
         => /\ queue' = Append(queue, submitted')
            /\ started' = started + 1]_vars

\* number of places that hold item i: the queue, a consumer between its get and
\* its append, and the result lists
count(seq, i) == Cardinality({k \in 1..Len(seq) : seq[k] = i})
holders(i) == {w \in Procs : wpc[w] = "append" /\ witem[w] = i}
RECURSIVE all_results(_)
all_results(b) == IF b = 0 THEN <<>> ELSE all_results(b - 1) \o results_list[b]
occurrences(i) ==
    count(queue, i) + Cardinality(holders(i)) + count(all_results(NumBuffers), i)

\* C4: every submitted item is dequeued by at most one consumer and its result
\* is appended at most once; no append is lost: at any moment an item is in
\* exactly one place (still queued, held by one consumer, or once in the results).
C4_ConsumedOnce ==
    /\ \A i \in 1..submitted : occurrences(i) = 1
    /\ \A k \in 1..Len(results_list[1]) : results_list[1][k] \in 1..submitted

\* C4 witness: two consumers hold items at the same time and a result is in.
C4_Witness ==
    /\ \E w1, w2 \in Procs : w1 # w2 /\ wpc[w1] = "append" /\ wpc[w2] = "append"
    /\ Len(results_list[1]) > 0

Min(a, b) == IF a < b THEN a ELSE b

\* C8: consume(lim) on a queue holding N items returns exactly the oldest
\* min(N, lim) items in insertion order, without raising, and leaves the rest
\* in the queue for the next call.
C8_ConsumeBatch ==
    calls > 0 =>
        /\ raised = ""
        /\ consumed = SubSeq(before, 1, Min(Len(before), lim))
        /\ dq = SubSeq(before, Min(Len(before), lim) + 1, Len(before))

\* C9: the runner never reaches its generate-report branch, and never issues a
\* create-report request, for a map reference that carries a report id.
C9_NoCreateWithReport ==
    \A m \in generate_log \cup create_requests : m.report_id = None

\* C9 witness: a map went through the generate-report branch without a report,
\* the cache then supplied one, and a reference to the same map that carries
\* the report id has been dequeued again and passed over.
C9_Witness ==
    \E k \in 1..MaxMaps :
        /\ [key |-> k, report_id |-> None] \in generate_log
        /\ dequeues[k] >= 2
        /\ map_instance = [key |-> k, report_id |-> k]
        /\ rpc = "get"

\* C10: whenever the runner finds the report still absent after the cache
\* refresh, it issues a create-report request for that reference (the first of
\* the two requests the scenario counts on the way to Polling).
C10_CreateIssued == generate_log \subseteq create_requests

\* C11: constructing a BufferConsumer without a queue raises
\* ParsingBufferException, constructing a MapReportRunner without a queue or
\* without a cache raises ReportRunnerException, and construction with all the
\* required collaborators succeeds; no process is started and nothing is consumed.
C11_ConstructorContract ==
    constructs > 0 =>
        /\ ccls = "BufferConsumer" =>
             cresult = IF ckw.queue THEN "ok" ELSE "ParsingBufferException"
        /\ ccls = "MapReportRunner" =>
             cresult = IF ckw.queue /\ ckw.redis_cache THEN "ok" ELSE "ReportRunnerException"
        /\ started = 0 /\ jobq = <<>> /\ dequeues = [k \in 1..MaxMaps |-> 0]

\* C12: once finish() has returned, completion_callback has been invoked with
\* the full result sequence (the value finish() returned), and consumer_callback
\* has been invoked once for every consumer that has exited.
C12_CompletionHooks ==
    drained =>
        /\ completion_calls # <<>>
        /\ completion_calls[Len(completion_calls)] = ret
        /\ consumer_calls = Cardinality({w \in Procs : wpc[w] = "dead"})

\* C13: calculate_processing_average() reports DivisionUndefined when
\* start_time or end_time is unset or the two are equal, and otherwise returns
\* processed / (end_time - start_time).
C13_AverageRate ==
    avg.called =>
        IF stats.start_time = None \/ stats.end_time = None
               \/ stats.start_time = stats.end_time
        THEN avg.kind = "DivisionUndefined"
        ELSE /\ avg.kind = "value"
             /\ avg.value * (stats.end_time - stats.start_time) = stats.processed

\* C14: after the consumers have made k calls of an increment method, in any
\* interleaving, the manager's counter is its initial value (0) plus k, and no
\* counter is below its initial value.
C14_IncrementsAdd ==
    \A c \in Counters : stats[c] = inc_calls[c]

\* C15: every running consumer eventually terminates (the producer submits
\* finitely many items); it leaves its loop only at a queue.get that timed out
\* on an empty queue, and while the queue holds an item its get takes one.
C15_ConsumerTerminates ==
    /\ \A w \in Procs : is_alive(w) ~> (wpc[w] = "dead")
    /\ [][\A w \in Procs :
            (wpc[w] # "done" /\ wpc'[w] = "done") => (wpc[w] = "get" /\ queue = <<>>)]_vars

\* C15 witness: a consumer has processed items and then exited on the empty queue.
C15_Witness ==
    \E w \in Procs :
        /\ wpc[w] = "dead"
        /\ queue = <<>>
        /\ Len(results_list[1]) >= 2

\* C16: the runner eventually terminates, whatever finite set of map
\* references is queued, also when a reference has no report id and the cache
\* never supplies one.
C16_RunnerTerminates == <>(rpc = "done")

\* the handles in a running list
handles(l) == {l[i] : i \in 1..Len(l)}

\* C17: when add() returns, the running list holds no consumer that had
\* already exited when the call began.
C17_AddReapsExited ==
    [][AddStep => \A w \in handles(running) : ~is_alive(w) => w \notin handles(running')]_vars

\* C17 witness: an add() has removed the handle of an exited consumer.
C17_Witness ==
    /\ started = 1
    /\ wpc[1] = "dead"
    /\ submitted >= 2
    /\ running = <<>>

\* C18: a reference that carries a report id is polled: by the time the runner
\* goes back to its queue, a remote status request has been issued for it.
C18_PollsReport ==
    (rpc = "get" /\ map_instance.report_id # None) => map_instance \in status_requests

\* C19: instances do not share their queue or running list: an item added
\* through one instance is never held by a consumer of another nor put in
\* another's result list, and an add() through an instance none of whose
\* consumers is in the running list starts a consumer.
C19_InstancesIsolated ==
    [][/\ \A b \in Buffers : \A k \in 1..Len(results_list'[b]) :
            submitted_to'[results_list'[b][k]] = b
       /\ \A w \in Procs : wpc'[w] = "append" => submitted_to'[witem'[w]] = wlist'[w]
       /\ AddStep =>
            ((\A w \in handles(running) : wlist[w] # submitted_to'[submitted'])
                => started' = started + 1)]_vars

first_submitted(k) == [i \in 1..k |-> i]

\* C21: with the default BufferConsumer and one ImportBuffer, the result
\* collector always holds exactly the first k submitted items in submission
\* order, for some k, and so does the sequence the last finish() returned.
C21_ResultsInSubmissionOrder ==
    /\ \E k \in 0..submitted : results_list[1] = first_submitted(k)
    /\ \E k \in 0..submitted : ret = first_submitted(k)

\* C21 witness: finish() has returned three items that were collected by two
\* generations of consumers.
C21_Witness ==
    /\ drained
    /\ Len(ret) >= 3
    /\ started >= 2
    /\ wlist[1] = 1
    /\ wlist[2] = 1
    /\ wpc[1] = "dead"

\* a is an initial segment of b
IsPrefix(a, b) == Len(a) <= Len(b) /\ SubSeq(b, 1, Len(a)) = a

\* a step of the producer inside finish(): entering it, one join of its loop, or its return
FinishStep == ppc' # ppc \/ jidx' # jidx

\* C22: every step of finish() leaves the queue, the running list and the
\* result collectors unchanged; no step ever shortens a collector; and a
\* finish() returns a sequence that has the previously returned one as a prefix.
C22_FinishOnlyReads ==
    [][ /\ FinishStep => UNCHANGED <<queue, running, results_list>>
        /\ \A b \in Buffers : IsPrefix(results_list[b], results_list'[b])
        /\ FinishReturns => IsPrefix(ret, ret') ]_vars

\* C22 witness: an earlier finish() returned a non-empty result, a second
\* finish() has joined every consumer and is about to return, and the
\* collector has grown in between.
C22_Witness ==
    /\ ppc = "join"
    /\ jidx > Len(running)
    /\ ret # <<>>
    /\ Len(results_list[jbuf]) > Len(ret)
    /\ queue = <<>>

====
